---- MODULE Spec2Model ----
(***************************************************************************)
(* PackFlow (src/packflow/__init__.py): nodes with a prep/exec/post        *)
(* lifecycle and bounded retry, wired by action labels, and the Flow       *)
(* orchestrator that executes the graph discovered from a start node in    *)
(* dependency waves.                                                       *)
(*                                                                         *)
(*   Spec      wiring of a graph with next(), then Flow._run on it         *)
(*   SpecBatch wiring of a graph with next(), then BatchFlow._run on it    *)
(*   SpecNode  Node._run of one retry-capable node                         *)
(***************************************************************************)
EXTENDS Integers, Sequences, FiniteSets, TLC

VARIABLES
    successors,       \* node -> its successor table, a dict in insertion order
    params,           \* node -> the node's own params attribute
    flow_params,      \* the flow's own params attribute
    flow_class,       \* "Flow" or "BatchFlow"
    start_node,       \* the flow's start_node
    pc,               \* position of the run
    pr,               \* BatchFlow._run: the list prep returned, as far as the
                      \* for loop has reached it
    bi,               \* BatchFlow._run: number of _orch calls that returned
    p,                \* _orch: the run's parameter dict
    action_map,       \* _orch: executed node -> action
    dependencies,     \* _orch: node -> set of nodes that must complete first
    reverse_deps,     \* _orch: node -> set of nodes that depend on it
    dep_order,        \* _orch: the keys of dependencies in insertion order
    completed_nodes,  \* _orch: set of completed nodes
    ready_nodes,      \* _orch: the list the for loop walks
    ri,               \* _orch: number of elements of ready_nodes already visited
    o,                \* what the last _orch call returned
    ret,              \* what the entry point returned
    exc,              \* the error that left the entry point
    wave,             \* number of the current iteration of the while loop
    exec_log,         \* the executions of the current _orch call, in order
    expansions,       \* node -> number of add_dependency calls on it
    self,             \* SpecNode: the node under execution
    behaviour,        \* SpecNode: what the node's own prep/exec/fallback/post do
    events,           \* SpecNode: the calls made so far, in order
    prep_res,         \* SpecNode: what prep returned
    exec_res,         \* SpecNode: what _exec returned
    shared,           \* the shared context: the nodes whose post has written to it
    warnings,         \* the warnings emitted so far, in order
    executions,       \* node -> number of executions since the entry point was called
    orch_calls,       \* the parameter dict of every _orch call so far, in order
    post_calls        \* the arguments of every call of the flow's post, in order

orch_vars == <<p, action_map, dependencies, reverse_deps, dep_order,
               completed_nodes, ready_nodes, ri, wave, exec_log, expansions>>
graph_vars == <<successors, params, flow_params, flow_class, start_node>>
node_vars == <<self, behaviour, events, prep_res, exec_res>>
run_vars == <<shared, warnings, executions, orch_calls, post_calls>>
vars == <<graph_vars, pc, pr, bi, orch_vars, o, ret, exc, node_vars, run_vars>>

----------------------------------------------------------------------------
(* Bounds of the model *)

NumNodes == 2      \* plain Node instances 1..NumNodes
MaxEdges == 3      \* calls of next() while wiring the graph of a Flow
MaxBatchEdges == 2 \* calls of next() while wiring the graph of a BatchFlow
MaxBatch == 2      \* length of the override list of a BatchFlow
MaxRetries == 3    \* largest max_retries a node is constructed with
MaxWait == 1       \* largest wait a node is constructed with

(* Program constants *)

DefaultMaxRetries == 1
DefaultWait == 0

----------------------------------------------------------------------------
(* Values *)

None == "<None>"
NoValue == [tag |-> "None"]
Default == "default"

Nodes == 1..NumNodes
InnerFlow == 0                       \* a Flow instance wired as a node
Objects == Nodes \cup {InnerFlow}
InnerStart == NumNodes               \* the inner flow's start_node
OuterStart == 1                      \* the start_node of the flow that is run

Labels == {Default, "x"}
PostReturns == {None, "", "x"}

\* Python truth value of an action: None and the empty string are false.
Falsy(v) == v \in {None, ""}

EmptyDict == [k \in {} |-> 0]
ParamKeys == {"id"}
\* element i of the list a BatchFlow's prep returns
Override(i) == [k \in {"id"} |-> i]
\* the flows that are run: a Flow as constructed, and a BatchFlow that was
\* given base params with set_params
PlainFlow == [class |-> "Flow", params |-> EmptyDict]
ParamBatchFlow == [class |-> "BatchFlow", params |-> [k \in {"id", "base"} |-> 0]]

\* {**a, **b}
Merge(a, b) ==
    [k \in DOMAIN a \cup DOMAIN b |-> IF k \in DOMAIN b THEN b[k] ELSE a[k]]

Range(s) == {s[i] : i \in 1..Len(s)}

----------------------------------------------------------------------------
(* The successor table: a dict action -> list of nodes, in insertion order *)

Keys(table) == [i \in 1..Len(table) |-> table[i].action]

HasKey(table, action) == \E i \in 1..Len(table) : table[i].action = action

\* table.get(action, [])
Get(table, action) ==
    IF HasKey(table, action)
    THEN table[CHOOSE i \in 1..Len(table) : table[i].action = action].nodes
    ELSE <<>>

\* BaseNode.next: the table after self.next(node, action)
TableAfterNext(table, node, action) ==
    LET t == IF HasKey(table, action) THEN table
             ELSE Append(table, [action |-> action, nodes |-> <<>>])
    IN [i \in 1..Len(t) |->
          IF t[i].action = action
          THEN [t[i] EXCEPT !.nodes = Append(@, node)]
          ELSE t[i]]

NumEdges == LET RECURSIVE cnt(_, _)
                cnt(t, i) == IF i > Len(t) THEN 0 ELSE Len(t[i].nodes) + cnt(t, i + 1)
                RECURSIVE total(_)
                total(S) == IF S = {} THEN 0
                            ELSE LET n == CHOOSE n \in S : TRUE
                                 IN cnt(successors[n], 1) + total(S \ {n})
            IN total(Objects)

----------------------------------------------------------------------------
(* Node lifecycle: prep, _exec with retry and fallback, post *)

\* Node.__init__ / Flow.__init__: the attributes execution reads
NodeObject(class, max_retries, wait) ==
    [class |-> class, max_retries |-> max_retries, wait |-> wait]

\* What the code a node's author wrote does in one execution: prep returns or
\* raises, attempt i of exec returns or raises, exec_fallback is the default
\* or an override returning a value, post returns an action or raises.
Behaviours(attempts, posts) ==
    [prep : {"ok", "raise"},
     exec : [1..attempts -> {"ok", "fail"}],
     fallback : {"default", "override"},
     post : posts \cup {"raise"}]

Error(phase, attempt) == [tag |-> "error", phase |-> phase, attempt |-> attempt]
\* what attempt number attempt + 1 of exec(arg) returns
ExecResult(arg, attempt) == [tag |-> "result", arg |-> arg, attempt |-> attempt]
PrepResult == [tag |-> "prep_res"]

Returned(value, evs) == [raised |-> FALSE, value |-> value, exc |-> NoValue, events |-> evs]
Raised(e, evs) == [raised |-> TRUE, value |-> NoValue, exc |-> e, events |-> evs]

\* Node.exec_fallback, or the override of it
exec_fallback(b, prep_result, e, evs) ==
    LET evs1 == Append(evs, [op |-> "exec_fallback", arg |-> prep_result, exc |-> e])
    IN IF b.fallback = "default"
       THEN Raised(e, evs1)
       ELSE Returned([tag |-> "fallback", arg |-> prep_result, exc |-> e], evs1)

\* RetryLoop that calls the fallback on the first failure
RetryLoopEager(node, b, prep_result, cur_retry, evs) ==
    IF cur_retry >= node.max_retries
    THEN Returned(NoValue, evs)
    ELSE LET evs1 == Append(evs, [op |-> "exec", arg |-> prep_result, cur_retry |-> cur_retry])
         IN IF b.exec[cur_retry + 1] = "ok"
            THEN Returned(ExecResult(prep_result, cur_retry), evs1)
            ELSE exec_fallback(b, prep_result, Error("exec", cur_retry), evs1)

\* Node._exec: the loop over range(max_retries), from iteration cur_retry on
RECURSIVE RetryLoop(_, _, _, _, _)
RetryLoop(node, b, prep_result, cur_retry, evs) ==
    IF cur_retry >= node.max_retries
    THEN Returned(NoValue, evs)
    ELSE LET evs1 == Append(evs, [op |-> "exec", arg |-> prep_result, cur_retry |-> cur_retry])
         IN IF b.exec[cur_retry + 1] = "ok"
            THEN Returned(ExecResult(prep_result, cur_retry), evs1)
            ELSE IF cur_retry = node.max_retries - 1
                 THEN exec_fallback(b, prep_result, Error("exec", cur_retry), evs1)
                 ELSE RetryLoop(node, b, prep_result, cur_retry + 1,
                                IF node.wait > 0
                                THEN Append(evs1, [op |-> "sleep", arg |-> node.wait])
                                ELSE evs1)

\* Node_exec over range(1, max_retries)
Node_exec_FromOne(node, b, prep_result, evs) == RetryLoop(node, b, prep_result, 1, evs)

\* Node_exec that rejects a retry count below one
Node_exec_Validated(node, b, prep_result, evs) ==
    IF node.max_retries <= 0 THEN Raised(Error("exec", 0), evs)
    ELSE RetryLoop(node, b, prep_result, 0, evs)

Node_exec(node, b, prep_result, evs) == RetryLoop(node, b, prep_result, 0, evs)

\* BaseNode._exec: self.exec(prep_res), and BaseNode.exec returns None
BaseNode_exec(node, b, prep_result, evs) ==
    Returned(NoValue, Append(evs, [op |-> "exec", arg |-> prep_result, cur_retry |-> -1]))

\* element i of the list a BatchNode's prep returns, and a list
Item(i) == [tag |-> "item", index |-> i]
ListOf(elems) == [tag |-> "list", elems |-> elems]

\* "items or []"
ItemsOrEmpty(items) == IF items.tag = "None" THEN <<>> ELSE items.elems

\* what the author's code does on element i of a batch: exec has its own
\* outcomes for every element
ItemBehaviour(b, i) ==
    [prep |-> b.prep, exec |-> b.exec[i], fallback |-> b.fallback, post |-> b.post]

\* the list comprehension of BatchNode._exec from element i on, out being the
\* results so far
RECURSIVE BatchLoop(_, _, _, _, _, _)
BatchLoop(node, b, items, i, out, evs) ==
    IF i > Len(items)
    THEN Returned(ListOf(out), evs)
    ELSE LET r == Node_exec(node, ItemBehaviour(b, i), items[i], evs)
         IN IF r.raised THEN r
            ELSE BatchLoop(node, b, items, i + 1, Append(out, r.value), r.events)

\* a BatchNode that inherits Node._exec: one call on the whole list
BatchNode_exec_Whole(node, b, items, evs) == Node_exec(node, ItemBehaviour(b, 1), items, evs)

\* BatchNode._exec
BatchNode_exec(node, b, items, evs) == BatchLoop(node, b, ItemsOrEmpty(items), 1, <<>>, evs)

\* self._exec(prep_res), by the class of self
Call_exec(node, b, prep_result, evs) ==
    IF node.class = "Node"
    THEN Node_exec(node, b, prep_result, evs)
    ELSE IF node.class = "BatchNode"
    THEN BatchNode_exec(node, b, prep_result, evs)
    ELSE BaseNode_exec(node, b, prep_result, evs)

\* self.prep(shared): BaseNode.prep returns None; a Node's author overrides
\* it, and the prep of a BatchNode returns the list of items or None
Call_prep(node, b, evs) ==
    LET evs1 == Append(evs, [op |-> "prep"])
    IN IF node.class = "Flow" THEN Returned(NoValue, evs1)
       ELSE IF b.prep = "raise" THEN Raised(Error("prep", 0), evs1)
       ELSE IF node.class = "BatchNode" THEN Returned(b.items, evs1)
       ELSE Returned(PrepResult, evs1)

\* Call_post with the error of post handed to exec_fallback
Call_post_Fallback(node, b, prep_result, exec_result, evs) ==
    LET evs1 == Append(evs, [op |-> "post", arg |-> prep_result, exec_res |-> exec_result])
    IN IF node.class = "Flow" THEN Returned(None, evs1)
       ELSE IF b.post = "raise" THEN exec_fallback(b, prep_result, Error("post", 0), evs1)
       ELSE Returned(b.post, evs1)

\* self.post(shared, prep_res, exec_res): Flow.post returns exec_res, which is
\* None whenever a flow is executed as a node; a Node's author overrides post
Call_post(node, b, prep_result, exec_result, evs) ==
    LET evs1 == Append(evs, [op |-> "post", arg |-> prep_result, exec_res |-> exec_result])
    IN IF node.class = "Flow" THEN Returned(None, evs1)
       ELSE IF b.post = "raise" THEN Raised(Error("post", 0), evs1)
       ELSE Returned(b.post, evs1)

\* prep, _exec, post in sequence, as Node._run and execute_node call them
RunPhases(node, b) ==
    LET r1 == Call_prep(node, b, <<>>)
    IN IF r1.raised THEN r1
       ELSE LET r2 == Call_exec(node, b, r1.value, r1.events)
            IN IF r2.raised THEN r2
               ELSE Call_post(node, b, r1.value, r2.value, r2.events)

----------------------------------------------------------------------------
(* Flow._build_dependency_graph *)

\* A call chain of add_dependency longer than the number of objects follows a
\* cycle of the successor tables and never returns: the interpreter ends it
\* with RecursionError.
RecursionLimit == Cardinality(Objects) + 1

EmptyGraph ==
    [dependencies |-> [n \in {} |-> {}],
     reverse_deps |-> [n \in {} |-> {}],
     order |-> <<>>,
     expansions |-> [n \in Objects |-> 0],
     overflow |-> FALSE]

\* "if n not in dependencies: dependencies[n] = set()", and the same for
\* reverse_deps
Ensure(g, n) ==
    IF n \in DOMAIN g.dependencies THEN g
    ELSE [g EXCEPT !.dependencies = [m \in DOMAIN @ \cup {n} |-> IF m = n THEN {} ELSE @[m]],
                   !.reverse_deps = [m \in DOMAIN @ \cup {n} |-> IF m = n THEN {} ELSE @[m]],
                   !.order = Append(@, n)]

\* ActionsToWalk that ignores the action it is given
ActionsToWalkAll(table, action) == Keys(table)

\* ActionsToWalk that reads "no action" as the default action
ActionsToWalkDefault(table, action) ==
    IF ~Falsy(action) THEN <<action>> ELSE <<Default>>

\* The actions add_dependency walks: the given one, or every key of the table
ActionsToWalk(table, action) ==
    IF ~Falsy(action) THEN <<action>> ELSE Keys(table)

RECURSIVE add_dependency(_, _, _, _, _)
RECURSIVE ForSuccessors(_, _, _, _, _, _)
RECURSIVE ForActions(_, _, _, _, _, _)

\* the body of "for succ in successors", from element j on
ForSuccessors(succ_of, g, node, succs, j, depth) ==
    IF g.overflow \/ j > Len(succs) THEN g
    ELSE LET succ == succs[j]
             g1 == Ensure(g, succ)
             g2 == [g1 EXCEPT !.dependencies[succ] = @ \cup {node},
                              !.reverse_deps[node] = @ \cup {succ}]
             g3 == add_dependency(succ_of, g2, succ, None, depth + 1)
         IN ForSuccessors(succ_of, g3, node, succs, j + 1, depth)

\* the body of "for curr_action in actions", from element i on
ForActions(succ_of, g, node, actions, i, depth) ==
    IF g.overflow \/ i > Len(actions) THEN g
    ELSE ForActions(succ_of,
                    ForSuccessors(succ_of, g, node, Get(succ_of[node], actions[i]), 1, depth),
                    node, actions, i + 1, depth)

add_dependency(succ_of, g, node, action, depth) ==
    IF g.overflow THEN g
    ELSE IF depth > RecursionLimit THEN [g EXCEPT !.overflow = TRUE]
    ELSE LET g1 == [Ensure(g, node) EXCEPT !.expansions[node] = @ + 1]
         IN ForActions(succ_of, g1, node, ActionsToWalk(succ_of[node], action), 1, depth)

\* _build_dependency_graph(action_map)
BuildDependencyGraph(succ_of, start, amap) ==
    add_dependency(succ_of, EmptyGraph, start,
                   IF start \in DOMAIN amap THEN amap[start] ELSE None, 1)

----------------------------------------------------------------------------
(* Flow._orch: the ready lists *)

\* "for node in dependencies: if dependencies[node].issubset(completed_nodes):
\* ready_nodes.append(node)", from key i of the dict on
RECURSIVE ReadyFrom(_, _, _, _)
ReadyFrom(deps, order, completed, i) ==
    IF i > Len(order) THEN <<>>
    ELSE (IF deps[order[i]] \subseteq completed THEN <<order[i]>> ELSE <<>>)
         \o ReadyFrom(deps, order, completed, i + 1)

\* InitialReady with "some dependency completed" for "every dependency"
InitialReadyAny(deps, order, completed) ==
    LET some == [n \in DOMAIN deps |->
                   IF deps[n] \cap completed # {} THEN {} ELSE deps[n]]
    IN ReadyFrom(some, order, completed, 1)

\* InitialReady that stops at the first ready node
InitialReadyFirst(deps, order, completed) ==
    LET r == ReadyFrom(deps, order, completed, 1)
    IN IF r = <<>> THEN r ELSE <<Head(r)>>

InitialReady(deps, order, completed) == ReadyFrom(deps, order, completed, 1)

\* RecomputedReady without "- completed_nodes"
RecomputedReadyKeepCompleted(deps, rdeps, completed) ==
    {d \in UNION {rdeps[n] : n \in completed \cap DOMAIN rdeps} :
        \A dep \in deps[d] : dep \in completed}

\* the set the recomputation of ready_nodes ends with:
\* set(dependents of completed nodes with all dependencies completed) - completed
RecomputedReady(deps, rdeps, completed) ==
    {d \in UNION {rdeps[n] : n \in completed \cap DOMAIN rdeps} :
        \A dep \in deps[d] : dep \in completed} \ completed

\* the lists list(a set) can be
Orderings(S) ==
    {s \in [1..Cardinality(S) -> S] : \A i, j \in 1..Cardinality(S) : i # j => s[i] # s[j]}

----------------------------------------------------------------------------
(* Flow._orch: execute_node *)

\* The object a graph position holds: plain nodes are Node() with the default
\* retry settings, and one position holds a Flow.
ObjectAt(n) ==
    IF n = InnerFlow THEN NodeObject("Flow", DefaultMaxRetries, DefaultWait)
    ELSE NodeObject("Node", DefaultMaxRetries, DefaultWait)

\* What the nodes of a graph do, each behaviour once: what a phase would do
\* after an earlier phase raised, or a fallback that is not called, is fixed.
OrchBehaviours ==
    {b \in Behaviours(DefaultMaxRetries, PostReturns) :
        /\ b.prep = "raise" => b.exec[1] = "ok" /\ b.fallback = "default" /\ b.post = None
        /\ b.exec[1] = "ok" => b.fallback = "default"
        /\ (b.exec[1] = "fail" /\ b.fallback = "default") => b.post = None}

\* set_params called on the node itself instead of on a copy
CopyWithParamsInPlace(node_params, run_params) ==
    [node |-> run_params, node_copy |-> run_params]

\* "node_copy = copy.copy(node); node_copy.set_params(p)": the params attribute
\* of the node and of its copy afterwards
CopyWithParams(node_params, run_params) ==
    [node |-> node_params, node_copy |-> run_params]

\* "action = action or 'default'"
OrDefault(action) == IF Falsy(action) THEN Default ELSE action

\* "if node in action_map: return"
AlreadyExecuted(amap, node) == node \in DOMAIN amap

\* execute_node that catches the error of a phase and returns
execute_node_swallow(amap, node, b, run_params, node_params) ==
    IF AlreadyExecuted(amap, node)
    THEN [executed |-> FALSE, failed |-> FALSE, raised |-> FALSE, exc |-> NoValue,
          post |-> None, action_map |-> amap,
          node_params |-> node_params, copy_params |-> run_params]
    ELSE LET r == RunPhases(ObjectAt(node), b)
         IN [executed |-> TRUE, failed |-> r.raised, raised |-> FALSE, exc |-> NoValue,
             post |-> IF r.raised THEN None ELSE r.value,
             action_map |-> [m \in DOMAIN amap \cup {node} |->
                                IF m = node
                                THEN (IF r.raised THEN Default ELSE OrDefault(r.value))
                                ELSE amap[m]],
             node_params |-> node_params, copy_params |-> run_params]

\* execute_node(node): what it leaves behind.  executed: the node's phases
\* ran; failed: one of them raised; raised: the error left execute_node;
\* post: what post returned.
execute_node(amap, node, b, run_params, node_params) ==
    IF AlreadyExecuted(amap, node)
    THEN [executed |-> FALSE, failed |-> FALSE, raised |-> FALSE, exc |-> NoValue,
          post |-> None, action_map |-> amap,
          node_params |-> node_params, copy_params |-> run_params]
    ELSE LET c == CopyWithParams(node_params, run_params)
             r == RunPhases(ObjectAt(node), b)
         IN IF r.raised
            THEN [executed |-> TRUE, failed |-> TRUE, raised |-> TRUE, exc |-> r.exc,
                  post |-> None, action_map |-> amap,
                  node_params |-> c.node, copy_params |-> c.node_copy]
            ELSE [executed |-> TRUE, failed |-> FALSE, raised |-> FALSE, exc |-> NoValue,
                  post |-> r.value,
                  action_map |-> [m \in DOMAIN amap \cup {node} |->
                                     IF m = node THEN OrDefault(r.value) ELSE amap[m]],
                  node_params |-> c.node, copy_params |-> c.node_copy]

\* ProcessReady without either test for an earlier execution
ProcessReadyUnguarded(amap, completed, node, b, run_params, node_params) ==
    LET x == execute_node([m \in DOMAIN amap \ {node} |-> amap[m]], node, b,
                          run_params, node_params)
    IN x @@ [completed |-> IF x.raised THEN completed ELSE completed \cup {node}]

\* the body of "for node in ready_nodes": execute_node unless the node is
\* completed, then completed_nodes.add(node)
ProcessReady(amap, completed, node, b, run_params, node_params) ==
    IF node \in completed
    THEN [executed |-> FALSE, failed |-> FALSE, raised |-> FALSE, exc |-> NoValue,
          post |-> None, action_map |-> amap,
          node_params |-> node_params, copy_params |-> run_params,
          completed |-> completed]
    ELSE LET x == execute_node(amap, node, b, run_params, node_params)
         IN x @@ [completed |-> IF x.raised THEN completed ELSE completed \cup {node}]

\* the record of one execution kept for the properties
LogEntry(node, w, x) ==
    [node |-> node, run |-> bi + 1, wave |-> w, params |-> x.copy_params,
     failed |-> x.failed, post |-> x.post, seen |-> shared]

LogAfter(log, node, w, x) == IF x.executed THEN Append(log, LogEntry(node, w, x)) ELSE log

\* SharedAfter for a node copy that works on its own copy of the context
SharedAfterCopy(sh, node, x) == sh

\* The shared context is one object, handed by reference to prep and post of
\* every node copy: what a node's post writes is in it from then on.
SharedAfter(sh, node, x) == IF x.executed /\ ~x.raised THEN sh \cup {node} ELSE sh

ExecutionsAfter(ex, node, x) == IF x.executed THEN [ex EXCEPT ![node] = @ + 1] ELSE ex

\* Flow.post: return exec_res
Flow_post(prep_result, exec_result) == exec_result

\* the arguments of one call of post
PostCall(prep_result, exec_result) == [prep_res |-> prep_result, exec_res |-> exec_result]

EmptyMap == [n \in {} |-> None]
EmptyDeps == [n \in {} |-> {}]
IdleNode == NodeObject("Node", DefaultMaxRetries, DefaultWait)
IdleBehaviour == CHOOSE b \in OrchBehaviours : TRUE

----------------------------------------------------------------------------
(* Spec: wiring, then Flow._run / BatchFlow._run *)

\* no _orch call has been made
IdleOrch ==
    /\ pr = <<>>
    /\ bi = 0
    /\ p = EmptyDict
    /\ action_map = EmptyMap
    /\ dependencies = EmptyDeps
    /\ reverse_deps = EmptyDeps
    /\ dep_order = <<>>
    /\ completed_nodes = {}
    /\ ready_nodes = <<>>
    /\ ri = 0
    /\ wave = 0
    /\ exec_log = <<>>
    /\ expansions = [n \in Objects |-> 0]
    /\ o = None
    /\ ret = None
    /\ exc = NoValue
    /\ shared = {}
    /\ warnings = <<>>
    /\ executions = [n \in Objects |-> 0]
    /\ orch_calls = <<>>
    /\ post_calls = <<>>

\* the objects as constructed, and the flow f with its start node
Constructed(f) ==
    /\ successors = [n \in Objects |-> <<>>]
    /\ params = [n \in Objects |-> EmptyDict]
    /\ flow_class = f.class
    /\ flow_params = f.params
    /\ start_node = OuterStart

\* no node is run on its own
IdleNodeRun ==
    /\ self = IdleNode
    /\ behaviour = IdleBehaviour
    /\ events = <<>>
    /\ prep_res = NoValue
    /\ exec_res = NoValue

Init == Constructed(PlainFlow) /\ pc = "wiring" /\ IdleOrch /\ IdleNodeRun

InitBatch == Constructed(ParamBatchFlow) /\ pc = "wiring" /\ IdleOrch /\ IdleNodeRun

\* the number of next() calls the wiring of the flow's graph is bounded by
EdgeBound == IF flow_class = "BatchFlow" THEN MaxBatchEdges ELSE MaxEdges

\* the nodes some successor list of n names
AllSuccessors(n) == UNION {Range(successors[n][i].nodes) : i \in 1..Len(successors[n])}

\* number of times n is named in a successor list
RECURSIVE TimesIn(_, _)
TimesIn(list, n) ==
    IF list = <<>> THEN 0
    ELSE (IF Head(list) = n THEN 1 ELSE 0) + TimesIn(Tail(list), n)

\* the nodes the successor tables lead to from the nodes of S, S included
RECURSIVE ReachableFrom(_)
ReachableFrom(S) ==
    LET T == S \cup UNION {AllSuccessors(n) : n \in S}
    IN IF T = S THEN S ELSE ReachableFrom(T)

\* src.next(node, action), also written src - action >> node and src >> node.
\* A run reads the successor tables of the nodes reachable from the start
\* node only, so the graph is wired outward from the start node.
Wire(src, node, action) ==
    /\ pc = "wiring"
    /\ src \in ReachableFrom({start_node})
    /\ NumEdges < EdgeBound
    /\ successors' = [successors EXCEPT ![src] = TableAfterNext(@, node, action)]
    /\ UNCHANGED <<params, flow_params, flow_class, start_node, pc, pr, bi,
                   orch_vars, o, ret, exc, node_vars, run_vars>>

\* Flow._run up to the call of _orch; BatchFlow._run up to its for loop
FlowRun ==
    /\ pc = "wiring"
    /\ IF flow_class = "Flow"
       THEN /\ pr' = <<>>
            /\ pc' = "orch"
            /\ ret' = ret
            /\ post_calls' = post_calls
       ELSE /\ pr' \in {<<>>, <<Override(1)>>}
            /\ IF pr' = <<>>
               THEN /\ pc' = "done"
                    /\ ret' = Flow_post(pr', None)
                    /\ post_calls' = Append(post_calls, PostCall(pr', None))
               ELSE /\ pc' = "orch"
                    /\ ret' = ret
                    /\ post_calls' = post_calls
    /\ bi' = 0
    /\ UNCHANGED <<graph_vars, orch_vars, o, exc, node_vars,
                   shared, warnings, executions, orch_calls>>

\* OrchArgument that merges the first override in every iteration
OrchArgumentFirst ==
    IF flow_class = "BatchFlow" THEN Merge(flow_params, pr[1]) ELSE EmptyDict

\* the params argument of the coming _orch call
OrchArgument ==
    IF flow_class = "BatchFlow" THEN Merge(flow_params, pr[bi + 1]) ELSE EmptyDict

\* "p = params or {**self.params}": None and the empty dict are false
RunParams(arg, own) == IF arg = EmptyDict THEN Merge(own, EmptyDict) ELSE arg

\* _orch from its first line to execute_node(self.start_node)
OrchStart ==
    /\ pc = "orch"
    /\ \E b \in OrchBehaviours :
         LET run_params == RunParams(OrchArgument, flow_params)
             x == execute_node(EmptyMap, start_node, b, run_params, params[start_node])
         IN /\ p' = run_params
            /\ action_map' = x.action_map
            /\ params' = [params EXCEPT ![start_node] = x.node_params]
            /\ exec_log' = LogAfter(<<>>, start_node, 0, x)
            /\ shared' = SharedAfter(shared, start_node, x)
            /\ executions' = ExecutionsAfter(executions, start_node, x)
            /\ orch_calls' = Append(orch_calls, run_params)
            /\ IF x.raised
               THEN pc' = "raised" /\ exc' = x.exc
               ELSE pc' = "build" /\ exc' = exc
    /\ dependencies' = EmptyDeps
    /\ reverse_deps' = EmptyDeps
    /\ dep_order' = <<>>
    /\ completed_nodes' = {}
    /\ ready_nodes' = <<>>
    /\ ri' = 0
    /\ wave' = 0
    /\ expansions' = [n \in Objects |-> 0]
    /\ UNCHANGED <<successors, flow_params, flow_class, start_node, pr, bi, o, ret, node_vars,
                   warnings, post_calls>>

\* _build_dependency_graph, completed_nodes = {start} and the first ready list
Build ==
    /\ pc = "build"
    /\ LET g == BuildDependencyGraph(successors, start_node, action_map)
       IN /\ expansions' = g.expansions
          /\ IF g.overflow
             THEN /\ pc' = "raised"
                  /\ exc' = Error("RecursionError", 0)
                  /\ UNCHANGED <<dependencies, reverse_deps, dep_order, completed_nodes,
                                 ready_nodes, wave>>
             ELSE /\ pc' = "wave"
                  /\ exc' = exc
                  /\ dependencies' = g.dependencies
                  /\ reverse_deps' = g.reverse_deps
                  /\ dep_order' = g.order
                  /\ completed_nodes' = {start_node}
                  /\ ready_nodes' = InitialReady(g.dependencies, g.order, {start_node})
                  /\ wave' = 1
    /\ ri' = 0
    /\ UNCHANGED <<graph_vars, pr, bi, p, action_map, exec_log, o, ret, node_vars, run_vars>>

\* one iteration of "for node in ready_nodes"
WaveNode ==
    /\ pc = "wave"
    /\ ri < Len(ready_nodes)
    /\ \E b \in OrchBehaviours :
         LET node == ready_nodes[ri + 1]
             x == ProcessReady(action_map, completed_nodes, node, b, p, params[node])
         IN /\ action_map' = x.action_map
            /\ params' = [params EXCEPT ![node] = x.node_params]
            /\ exec_log' = LogAfter(exec_log, node, wave, x)
            /\ shared' = SharedAfter(shared, node, x)
            /\ executions' = ExecutionsAfter(executions, node, x)
            /\ completed_nodes' = x.completed
            /\ IF x.raised
               THEN pc' = "raised" /\ exc' = x.exc
               ELSE pc' = pc /\ exc' = exc
    /\ ri' = ri + 1
    /\ UNCHANGED <<successors, flow_params, flow_class, start_node, pr, bi, p, dependencies,
                   reverse_deps, dep_order, ready_nodes, wave, expansions, o, ret, node_vars,
                   warnings, orch_calls, post_calls>>

\* the end of one iteration of the while loop: ready_nodes is recomputed
Recompute ==
    /\ pc = "wave"
    /\ ready_nodes # <<>>
    /\ ri = Len(ready_nodes)
    /\ ready_nodes' \in Orderings(RecomputedReady(dependencies, reverse_deps, completed_nodes))
    /\ ri' = 0
    /\ wave' = wave + 1
    /\ UNCHANGED <<graph_vars, pc, pr, bi, p, action_map, dependencies, reverse_deps,
                   dep_order, completed_nodes, exec_log, expansions, o, ret, exc, node_vars,
                   run_vars>>

\* OrchResult that returns the action of the node recorded last
OrchResultLast(amap, start) ==
    IF exec_log = <<>> THEN None
    ELSE LET n == exec_log[Len(exec_log)].node
         IN IF n \in DOMAIN amap THEN amap[n] ELSE None

\* "return action_map.get(self.start_node)"
OrchResult(amap, start) == IF start \in DOMAIN amap THEN amap[start] ELSE None

\* the while loop ends: _orch returns, and Flow._run calls post, or
\* BatchFlow._run goes on to the next override and calls post after the last
OrchReturn ==
    /\ pc = "wave"
    /\ ready_nodes = <<>>
    /\ o' = OrchResult(action_map, start_node)
    /\ IF flow_class = "Flow"
       THEN /\ ret' = Flow_post(NoValue, o')
            /\ post_calls' = Append(post_calls, PostCall(NoValue, o'))
            /\ pc' = "done"
            /\ bi' = bi
            /\ pr' = pr
       ELSE /\ bi' = bi + 1
            /\ \/ /\ Len(pr) < MaxBatch
                  /\ pr' = Append(pr, Override(Len(pr) + 1))
                  /\ pc' = "orch"
                  /\ ret' = ret
                  /\ post_calls' = post_calls
               \/ /\ pr' = pr
                  /\ pc' = "done"
                  /\ ret' = Flow_post(pr, None)
                  /\ post_calls' = Append(post_calls, PostCall(pr, None))
    /\ UNCHANGED <<graph_vars, orch_vars, exc, node_vars,
                   shared, warnings, executions, orch_calls>>

Next ==
    \/ \E src \in Objects, node \in Objects, action \in Labels : Wire(src, node, action)
    \/ FlowRun
    \/ OrchStart
    \/ Build
    \/ WaveNode
    \/ Recompute
    \/ OrchReturn

Spec == Init /\ [][Next]_vars

SpecBatch == InitBatch /\ [][Next]_vars

----------------------------------------------------------------------------
(* SpecWire: the calls that build and read the successor tables *)

MaxWireEdges == 2  \* edge-construction calls that add an edge
MaxWarnings == 1   \* get_next_nodes calls that warn

\* a value that is not a str, such as 7; None is the other one
NotAString == "<7>"
ActionValues == {Default, None, NotAString}

\* isinstance(action, str)
IsStr(action) == action \notin {None, NotAString}

\* the message of warnings.warn in get_next_nodes
FlowEnds(action, keys) == [msg |-> "Flow ends", action |-> action, keys |-> keys]

\* Flow.get_next_nodes(curr, action), curr.successors being table
get_next_nodes(table, action) ==
    LET a == OrDefault(action)
        next_nodes == Get(table, a)
    IN [next_nodes |-> next_nodes,
        warnings |-> IF next_nodes = <<>> /\ table # <<>>
                     THEN <<FlowEnds(a, Keys(table))>> ELSE <<>>]

\* BaseNode.next(node, action) as a call: it has no test of its arguments
next(table, node, action) ==
    [raised |-> FALSE, table |-> TableAfterNext(table, node, action)]

\* "src - action >> node": __sub__, then _ConditionalTransition.__rshift__
ConditionalTransition(table, node, action) ==
    IF IsStr(action)
    THEN next(table, node, action)
    ELSE [raised |-> TRUE, table |-> table]

\* the outcome r of an edge-construction call on src
EdgeCall(src, r) ==
    /\ pc = "wiring"
    /\ NumEdges < MaxWireEdges
    /\ successors' = [successors EXCEPT ![src] = r.table]
    /\ IF r.raised
       THEN pc' = "raised" /\ exc' = Error("TypeError", 0)
       ELSE pc' = pc /\ exc' = exc
    /\ UNCHANGED <<params, flow_params, flow_class, start_node, pr, bi,
                   orch_vars, o, ret, node_vars, run_vars>>

\* src.next(node, action)
CallNext(src, node, action) == EdgeCall(src, next(successors[src], node, action))

\* src - action >> node
CallTransition(src, node, action) ==
    EdgeCall(src, ConditionalTransition(successors[src], node, action))

\* flow.get_next_nodes(curr, action)
CallGetNextNodes(curr, action) ==
    /\ pc = "wiring"
    /\ Len(warnings) < MaxWarnings
    /\ warnings' = warnings \o get_next_nodes(successors[curr], action).warnings
    /\ UNCHANGED <<graph_vars, pc, pr, bi, orch_vars, o, ret, exc, node_vars,
                   shared, executions, orch_calls, post_calls>>

NextWire ==
    \/ \E src \in Objects, node \in Objects, action \in ActionValues :
          CallNext(src, node, action)
    \/ \E src \in Objects, node \in Objects, action \in ActionValues :
          CallTransition(src, node, action)
    \/ \E curr \in Objects, action \in ActionValues : CallGetNextNodes(curr, action)

SpecWire == Init /\ [][NextWire]_vars

----------------------------------------------------------------------------
(* SpecNode: Node._run of one node, phase by phase *)

\* Node.__init__ takes any max_retries: zero and a negative one are among them
NodeChoices == {NodeObject("Node", m, w) : m \in (-1)..MaxRetries, w \in 0..MaxWait}

InitNode ==
    /\ self \in NodeChoices
    /\ behaviour \in Behaviours(MaxRetries, PostReturns)
    /\ pc = "prep"
    /\ events = <<>>
    /\ prep_res = NoValue
    /\ exec_res = NoValue
    /\ Constructed(PlainFlow)
    /\ IdleOrch

\* "p = self.prep(shared)"
NodePrep ==
    /\ pc = "prep"
    /\ LET r == Call_prep(self, behaviour, events)
       IN /\ events' = r.events
          /\ IF r.raised
             THEN pc' = "raised" /\ exc' = r.exc /\ prep_res' = prep_res
             ELSE pc' = "exec" /\ exc' = exc /\ prep_res' = r.value
    /\ UNCHANGED <<graph_vars, pr, bi, orch_vars, o, ret, self, behaviour, exec_res, run_vars>>

\* "e = self._exec(p)"
NodeExec ==
    /\ pc = "exec"
    /\ LET r == Call_exec(self, behaviour, prep_res, events)
       IN /\ events' = r.events
          /\ IF r.raised
             THEN pc' = "raised" /\ exc' = r.exc /\ exec_res' = exec_res
             ELSE pc' = "post" /\ exc' = exc /\ exec_res' = r.value
    /\ UNCHANGED <<graph_vars, pr, bi, orch_vars, o, ret, self, behaviour, prep_res, run_vars>>

\* "r = self.post(shared, p, e); return r"
NodePost ==
    /\ pc = "post"
    /\ LET r == Call_post(self, behaviour, prep_res, exec_res, events)
       IN /\ events' = r.events
          /\ IF r.raised
             THEN pc' = "raised" /\ exc' = r.exc /\ ret' = ret
             ELSE pc' = "done" /\ exc' = exc /\ ret' = r.value
    /\ UNCHANGED <<graph_vars, pr, bi, orch_vars, o, self, behaviour, prep_res, exec_res,
                   run_vars>>

NextNode == NodePrep \/ NodeExec \/ NodePost

SpecNode == InitNode /\ [][NextNode]_vars

----------------------------------------------------------------------------
(* Properties of the orchestration (Spec) *)

Executions(n) == {i \in 1..Len(exec_log) : exec_log[i].node = n}
Executed == {exec_log[i].node : i \in 1..Len(exec_log)}

\* the while loop of _orch has ended without an error
LoopExited == pc = "wave" /\ ready_nodes = <<>>
\* the successors of the start node under the action recorded for it
TakenSuccessors ==
    IF start_node \in DOMAIN action_map
    THEN Range(Get(successors[start_node], action_map[start_node]))
    ELSE {}

\* C1: within one _orch call no node has its prep/_exec/post sequence run more
\* than once, whatever the shape of the graph.
C1_AtMostOnce == \A n \in Objects : Cardinality(Executions(n)) <= 1

\* a run has ended in which an executed node has two predecessors, or is
\* listed twice in one successor list, or under two labels of one node
C1_Witness ==
    /\ LoopExited
    /\ \E n \in Executed \ {start_node} :
         \/ Cardinality(dependencies[n]) >= 2
         \/ \E m \in Executed : \E i \in 1..Len(successors[m]) :
              /\ n \in dependencies[m] \cup reverse_deps[m]
              /\ TimesIn(successors[m][i].nodes, n) >= 2
         \/ \E m \in Executed \ {start_node} : \E i, j \in 1..Len(successors[m]) :
              /\ i # j
              /\ n \in Range(successors[m][i].nodes)
              /\ n \in Range(successors[m][j].nodes)

\* C2: the start node is executed first, and every other node only after
\* every node of its dependency set, each of them in an earlier wave; on
\* A -x-> B -default-> C with A returning x the order is A, B, C.
C2_DependencyOrder ==
    /\ exec_log # <<>> => exec_log[1].node = start_node /\ exec_log[1].wave = 0
    /\ \A i \in 1..Len(exec_log) :
         LET n == exec_log[i].node
         IN (n # start_node /\ n \in DOMAIN dependencies) =>
               \A d \in dependencies[n] :
                  \E j \in 1..(i - 1) :
                     /\ exec_log[j].node = d
                     /\ ~exec_log[j].failed
                     /\ exec_log[j].wave < exec_log[i].wave
    /\ ( /\ LoopExited
         /\ successors[1] = <<[action |-> "x", nodes |-> <<2>>]>>
         /\ successors[2] = <<[action |-> Default, nodes |-> <<InnerFlow>>]>>
         /\ successors[InnerFlow] = <<>>
         /\ action_map[start_node] = "x" )
       => [i \in 1..Len(exec_log) |-> exec_log[i].node] = <<1, 2, InnerFlow>>

\* a run has ended in which a node with two dependencies was executed, one of
\* them executed in a later wave than the other
C2_Witness ==
    /\ LoopExited
    /\ \E n \in Executed \ {start_node} :
         \E d1, d2 \in dependencies[n] :
            \E i \in Executions(d1), j \in Executions(d2) :
               exec_log[i].wave < exec_log[j].wave

\* C3: discovery from the start node follows only the edges under the action
\* recorded for it: every executed node other than the start node is one of
\* the successors under that action or reachable from them.
C3_OnlyTakenBranch ==
    \A n \in Executed : n = start_node \/ n \in ReachableFrom(TakenSuccessors)

\* a run has ended that executed a taken successor and left out a node that
\* is a successor of the start node under another label only
C3_Witness ==
    /\ LoopExited
    /\ TakenSuccessors \cap Executed # {}
    /\ \E n \in AllSuccessors(start_node) \ ReachableFrom(TakenSuccessors) :
         n \notin Executed /\ n # start_node

\* the discovered nodes other than the start node
DiscoveredBeyondStart == DOMAIN dependencies \ {start_node}

\* C4: every successor of a discovered node other than the start node, under
\* every label, is in the dependency graph as its dependent, and has been
\* executed when the run ends, whatever action that node returned.
C4_AllBranchesOfDeeperNodes ==
    \A X \in DiscoveredBeyondStart :
       \A s \in AllSuccessors(X) :
          /\ s \in DOMAIN dependencies
          /\ X \in dependencies[s]
          /\ s \in reverse_deps[X]
          /\ LoopExited => s \in DOMAIN action_map /\ s \in Executed

\* a run has ended in which a node other than the start node returned an
\* action and a successor it has under another label only was executed
C4_Witness ==
    /\ LoopExited
    /\ \E X \in DiscoveredBeyondStart :
         \E D \in AllSuccessors(X) :
            /\ D \notin Range(Get(successors[X], action_map[X]))
            /\ D \in Executed

\* C5: an _orch call that returns returns the action recorded for the start
\* node: what the start node's post returned, or "default" when that was no
\* label; Flow._run returns the same value.  No other node's action enters.
C5_ReturnsStartAction ==
    /\ (pc = "done" /\ flow_class = "Flow") => ret = o
    /\ (pc = "done" /\ Len(pr) > 0) \/ (pc = "done" /\ flow_class = "Flow")
         \/ (pc = "orch" /\ bi > 0) =>
          /\ exec_log # <<>>
          /\ exec_log[1].node = start_node
          /\ o = action_map[start_node]
          /\ o = (IF exec_log[1].post \in {None, ""} THEN "default" ELSE exec_log[1].post)

\* a Flow has returned "x", the label its start node returned, after another
\* node returned no label
C5_Witness ==
    /\ pc = "done"
    /\ flow_class = "Flow"
    /\ ret = "x"
    /\ \E i \in 2..Len(exec_log) : exec_log[i].post = None

\* C6: a Flow wired as a node of an outer flow orchestrates its own subgraph
\* when the outer scheduler executes it: its start node has been executed by
\* then, and the action recorded for the flow is that start node's action.
C6_InnerFlowRunsSubgraph ==
    InnerFlow \in DOMAIN action_map =>
       /\ InnerStart \in Executed
       /\ InnerStart \in DOMAIN action_map
       /\ action_map[InnerFlow] = action_map[InnerStart]

\* the phases of some execution raised
SomeFailed == \E i \in 1..Len(exec_log) : exec_log[i].failed

\* C7: an error that leaves a node's phases aborts the run at once: the
\* failing execution is the last one, the error leaves the entry point, and
\* the entry point returns nothing.
C7_FailFast ==
    /\ \A i \in 1..Len(exec_log) :
          exec_log[i].failed =>
             /\ i = Len(exec_log)
             /\ pc = "raised"
             /\ exc.tag = "error"
             /\ exec_log[i].node \notin DOMAIN action_map
    /\ pc = "raised" => (SomeFailed \/ exc = Error("RecursionError", 0))
    /\ pc = "done" => ~SomeFailed /\ exc = NoValue

\* a node of a wave raised while a discovered node was still to be executed
C7_Witness ==
    /\ pc = "raised"
    /\ Len(exec_log) >= 2
    /\ exec_log[Len(exec_log)].failed
    /\ DOMAIN dependencies \ (Executed \cup {start_node}) # {}

----------------------------------------------------------------------------
(* SpecBatchNode: Node._run of one BatchNode, phase by phase *)

MaxItems == 2        \* length of the list a BatchNode's prep returns
MaxItemRetries == 2  \* largest max_retries a BatchNode is constructed with

BatchNodeChoices ==
    {NodeObject("BatchNode", m, w) : m \in 0..MaxItemRetries, w \in 0..MaxWait}

ItemLists == {[i \in 1..k |-> Item(i)] : k \in 0..MaxItems}

\* What the author's code of a BatchNode does: prep returns None or a list,
\* exec has an outcome for every element and attempt.
BatchBehaviours ==
    [prep : {"ok", "raise"},
     items : {NoValue} \cup {ListOf(l) : l \in ItemLists},
     exec : [1..MaxItems -> [1..MaxItemRetries -> {"ok", "fail"}]],
     fallback : {"default", "override"},
     post : {None, "raise"}]

\* each behaviour of node once: the outcome of a call that is never made is fixed
MadeCallsOnly(node, b) ==
    /\ \A i \in 1..MaxItems : \A j \in 1..MaxItemRetries :
          (i > Len(ItemsOrEmpty(b.items)) \/ j > node.max_retries) => b.exec[i][j] = "ok"
    /\ b.prep = "raise" => b.items = NoValue /\ b.fallback = "default" /\ b.post = None

InitBatchNode ==
    /\ self \in BatchNodeChoices
    /\ behaviour \in BatchBehaviours
    /\ MadeCallsOnly(self, behaviour)
    /\ pc = "prep"
    /\ events = <<>>
    /\ prep_res = NoValue
    /\ exec_res = NoValue
    /\ Constructed(PlainFlow)
    /\ IdleOrch

SpecBatchNode == InitBatchNode /\ [][NextNode]_vars

----------------------------------------------------------------------------
(* Properties of a node's execution (SpecNode) *)

\* the calls _exec made, in order
ExecPhase == SelectSeq(events, LAMBDA e : e.op \in {"exec", "sleep", "exec_fallback"})
ExecCalls == SelectSeq(events, LAMBDA e : e.op = "exec")
SleepCalls == SelectSeq(events, LAMBDA e : e.op = "sleep")
FallbackCalls == SelectSeq(events, LAMBDA e : e.op = "exec_fallback")
PostCalls == SelectSeq(events, LAMBDA e : e.op = "post")

\* _exec has returned or raised
ExecOver ==
    \/ pc \in {"post", "done"}
    \/ pc = "raised" /\ exc.phase \in {"exec", "post"}

\* the node's exec fails on attempts 1..k-1 and succeeds on attempt k
SucceedsAt(k) ==
    /\ k \in 1..self.max_retries
    /\ behaviour.exec[k] = "ok"
    /\ \A j \in 1..(k - 1) : behaviour.exec[j] = "fail"

\* the node's exec fails on every attempt it is given
AlwaysFails ==
    /\ self.max_retries >= 1
    /\ \A j \in 1..self.max_retries : behaviour.exec[j] = "fail"

\* k attempts with a sleep between consecutive ones when wait > 0
AttemptsOnly(k, wait) ==
    [i \in 1..(IF wait > 0 THEN 2 * k - 1 ELSE k) |->
        IF wait > 0 /\ i % 2 = 0 THEN "sleep" ELSE "exec"]

\* C8: when exec fails on attempts 1..k-1 and succeeds on attempt k <= N,
\* exec is called exactly k times, the k-th result is the execution result,
\* nothing follows the success, and with wait > 0 there are exactly k-1
\* sleeps, one between consecutive attempts (k = N is the claim's case).
C8_RetryUntilSuccess ==
    \A k \in 1..MaxRetries + 1 :
       (ExecOver /\ SucceedsAt(k)) =>
          /\ [i \in 1..Len(ExecPhase) |-> ExecPhase[i].op] = AttemptsOnly(k, self.wait)
          /\ Len(ExecCalls) = k
          /\ \A i \in 1..Len(ExecCalls) :
                ExecCalls[i].cur_retry = i - 1 /\ ExecCalls[i].arg = prep_res
          /\ Len(SleepCalls) = (IF self.wait > 0 THEN k - 1 ELSE 0)
          /\ exec_res = ExecResult(prep_res, k - 1)
          /\ pc = "raised" => exc.phase = "post"

\* a node with N >= 2 attempts and a wait succeeded on its last attempt
C8_Witness ==
    /\ pc = "done"
    /\ self.max_retries >= 2
    /\ self.wait > 0
    /\ SucceedsAt(self.max_retries)
    /\ Len(ExecCalls) = self.max_retries
    /\ Len(SleepCalls) = self.max_retries - 1

\* C9: when exec fails on all N >= 1 attempts the fallback is called exactly
\* once, after the N-th failure, with the prepared input and the N-th error;
\* the default fallback re-raises that error, and an override's return value
\* is the execution result handed to post, with no error from _exec.
C9_FallbackAfterLastFailure ==
    (ExecOver /\ AlwaysFails) =>
       LET N == self.max_retries
       IN /\ Len(ExecCalls) = N
          /\ Len(FallbackCalls) = 1
          /\ ExecPhase[Len(ExecPhase)].op = "exec_fallback"
          /\ FallbackCalls[1].arg = prep_res
          /\ FallbackCalls[1].exc = Error("exec", N - 1)
          /\ behaviour.fallback = "default" =>
                /\ pc = "raised"
                /\ exc = Error("exec", N - 1)
                /\ PostCalls = <<>>
          /\ behaviour.fallback = "override" =>
                /\ exec_res = [tag |-> "fallback", arg |-> prep_res,
                               exc |-> Error("exec", N - 1)]
                /\ pc = "raised" => exc.phase = "post"
                /\ pc \in {"done", "raised"} =>
                      Len(PostCalls) = 1 /\ PostCalls[1].exec_res = exec_res

\* a node with N >= 2 attempts failed every time and its overridden fallback
\* supplied the result post received
C9_Witness ==
    /\ pc = "done"
    /\ self.max_retries >= 2
    /\ AlwaysFails
    /\ behaviour.fallback = "override"
    /\ Len(FallbackCalls) = 1
    /\ exec_res.tag = "fallback"

----------------------------------------------------------------------------
(* Frame of a run (Spec) *)

\* the parameters run number r of the flow works with
ParamsOfRun(r) ==
    IF flow_class = "BatchFlow" THEN Merge(flow_params, pr[r]) ELSE flow_params

\* C10: no step of a run changes a node's own params, a successor table or
\* the flow's own params, and every execution works with the parameters of
\* its own run, so a later run does not see the values of an earlier one.
C10_RunLeavesGraphUnchanged ==
    /\ [][ /\ params' = params
           /\ flow_params' = flow_params
           /\ pc # "wiring" => successors' = successors ]_vars
    /\ [](\A i \in 1..Len(exec_log) : exec_log[i].params = ParamsOfRun(exec_log[i].run))

\* the second run of a batch has executed a node with its own parameters
\* and the nodes' params are as constructed
C10_Witness ==
    /\ bi = 1
    /\ pc = "wave"
    /\ Len(exec_log) >= 2
    /\ exec_log[2].params = Merge(flow_params, Override(2))
    /\ exec_log[2].params # Merge(flow_params, Override(1))
    /\ params = [n \in Objects |-> EmptyDict]

----------------------------------------------------------------------------
(* C11, C14: actions without successors, and actions that are not strings *)

\* the executions of the current _orch call whose node returned an action it
\* has no successors for, while it has successors under other labels
DeadEnds ==
    {i \in 1..Len(exec_log) :
        LET e == exec_log[i]
        IN /\ ~e.failed
           /\ successors[e.node] # <<>>
           /\ Get(successors[e.node], OrDefault(e.post)) = <<>>}

\* C11: when an executed node returned an action it has no successors for,
\* while it has successors under other labels, the run that returns normally
\* has emitted a warning and returns the start node's resolved action.
C11_WarnsOnUnknownAction ==
    (pc = "done" /\ DeadEnds # {}) =>
        /\ warnings # <<>>
        /\ ret = action_map[start_node]

\* C14: an action that is not a string is rejected by every edge-construction
\* call, next(node, action) as well as "src - action >> node", and a rejected
\* call leaves the successor table as it was: no table has a key that is not
\* a string.
C14_NonStringActionRejected ==
    \A n \in Objects : \A i \in 1..Len(successors[n]) : IsStr(successors[n][i].action)

----------------------------------------------------------------------------
(* C12: BatchFlow._run *)

\* d is the base parameters with the overrides merged on top
MergedOnTop(d, base, overrides) ==
    /\ DOMAIN d = DOMAIN base \cup DOMAIN overrides
    /\ \A k \in DOMAIN overrides : d[k] = overrides[k]
    /\ \A k \in DOMAIN base \ DOMAIN overrides : d[k] = base[k]

\* C12: a batch flow whose prep returned K overrides makes K _orch calls, one
\* after the other in the order of the overrides, call i with the flow's params
\* and override i merged on top; every call starts from an empty action_map and
\* so executes the start node again, K times in all; then post is called once,
\* with all the overrides and None as exec_res, and its value is returned.
C12_BatchRunsInOrder ==
    flow_class = "BatchFlow" =>
        /\ Len(orch_calls) <= Len(pr)
        /\ \A i \in 1..Len(orch_calls) : MergedOnTop(orch_calls[i], flow_params, pr[i])
        /\ \A i \in 1..Len(exec_log) : exec_log[i].params = orch_calls[exec_log[i].run]
        /\ pc = "build" => DOMAIN action_map = {start_node}
        /\ pc \in {"build", "wave"} => executions[start_node] = Len(orch_calls)
        /\ pc # "done" => post_calls = <<>>
        /\ pc = "done" =>
              /\ Len(orch_calls) = Len(pr)
              /\ bi = Len(pr)
              /\ executions[start_node] = Len(pr)
              /\ post_calls = <<PostCall(pr, None)>>
              /\ ret = None

\* a batch over two overrides has returned
C12_Witness ==
    /\ flow_class = "BatchFlow"
    /\ pc = "done"
    /\ Len(pr) = 2
    /\ executions[start_node] = 2
    /\ orch_calls[2]["id"] = 2
    /\ orch_calls[2]["base"] = 0

----------------------------------------------------------------------------
(* C13: BatchNode._exec (SpecBatchNode) *)

\* the list the batch node works on
ItemsGiven == IF prep_res.tag = "list" THEN prep_res.elems ELSE <<>>

\* the calls of kind op made for element i
ItemCalls(i, op) == SelectSeq(events, LAMBDA e : e.op = op /\ e.arg = Item(i))

\* the first attempt on which exec succeeds for element i, 0 if there is none
FirstOk(i) ==
    LET ok == {k \in 1..self.max_retries : behaviour.exec[i][k] = "ok"}
    IN IF ok = {} THEN 0 ELSE CHOOSE k \in ok : \A j \in ok : k <= j

\* the elements whose failure is not recovered
Unrecovered ==
    {i \in 1..Len(ItemsGiven) :
        FirstOk(i) = 0 /\ self.max_retries >= 1 /\ behaviour.fallback = "default"}

\* the last element that is processed
LastProcessed ==
    IF Unrecovered = {} THEN Len(ItemsGiven)
    ELSE CHOOSE i \in Unrecovered : \A j \in Unrecovered : i <= j

\* what execute-with-retry gives for element i when it does not raise
ItemResult(i) ==
    IF FirstOk(i) > 0 THEN ExecResult(Item(i), FirstOk(i) - 1)
    ELSE IF self.max_retries >= 1
    THEN [tag |-> "fallback", arg |-> Item(i), exc |-> Error("exec", self.max_retries - 1)]
    ELSE NoValue

\* C13: a BatchNode given a list of K elements runs execute-with-retry on
\* every element in list order, each with a full budget of max_retries attempts
\* and its own fallback call, and returns the list of the K results in order;
\* None or an empty list gives an empty list with no call; an unrecovered
\* failure on element i raises, and no later element is processed.
C13_BatchNodePerElement ==
    ExecOver =>
        /\ \A i \in 1..Len(ItemsGiven) :
              IF i <= LastProcessed
              THEN /\ Len(ItemCalls(i, "exec")) =
                         (IF FirstOk(i) > 0 THEN FirstOk(i) ELSE self.max_retries)
                   /\ \A j \in 1..Len(ItemCalls(i, "exec")) :
                         ItemCalls(i, "exec")[j].cur_retry = j - 1
                   /\ Len(ItemCalls(i, "exec_fallback")) =
                         (IF FirstOk(i) = 0 /\ self.max_retries >= 1 THEN 1 ELSE 0)
              ELSE ItemCalls(i, "exec") = <<>> /\ ItemCalls(i, "exec_fallback") = <<>>
        /\ \A m \in 1..Len(ExecCalls) : \A n \in m..Len(ExecCalls) :
              ExecCalls[m].arg.index <= ExecCalls[n].arg.index
        /\ Len(ExecCalls) + Len(FallbackCalls) =
              Len(SelectSeq(events, LAMBDA e : e.op \in {"exec", "exec_fallback"}
                                                /\ e.arg \in Range(ItemsGiven)))
        /\ IF Unrecovered = {}
           THEN /\ pc = "raised" => exc.phase = "post"
                /\ exec_res = ListOf([i \in 1..Len(ItemsGiven) |-> ItemResult(i)])
           ELSE /\ pc = "raised"
                /\ exc = Error("exec", self.max_retries - 1)

\* a batch of two elements returned two results, the first on a retry
C13_Witness ==
    /\ pc = "done"
    /\ Len(ItemsGiven) = 2
    /\ FirstOk(1) = 2
    /\ Len(ItemCalls(1, "exec")) = 2
    /\ exec_res.tag = "list"
    /\ Len(exec_res.elems) = 2

----------------------------------------------------------------------------
(* C15: expansions during _build_dependency_graph *)

\* C15: while one dependency graph is built no node has its successor table
\* walked more than once, also when it is reached through several predecessors
\* or on a cycle, and the construction finishes (it does not end in
\* RecursionError).
C15_ExpandedAtMostOnce ==
    /\ \A n \in Objects : expansions[n] <= 1
    /\ ~(pc = "raised" /\ exc.tag = "error" /\ exc.phase = "RecursionError")

----------------------------------------------------------------------------
(* C16: what a node finds in the shared context *)

\* the nodes executed in a wave before the wave of execution i
EarlierWaves(i) ==
    {exec_log[j].node : j \in {k \in 1..Len(exec_log) : exec_log[k].wave < exec_log[i].wave}}

\* the nodes executed before execution i
ExecutedBefore(i) == {exec_log[j].node : j \in 1..(i - 1)}

----------------------------------------------------------------------------
(* C17: the while loop of _orch ends, with every discovered node executed *)

\* C17: once the dependency graph is built (the graph is then acyclic) and as
\* long as no phase raises, every iteration of the while loop whose ready list
\* holds an uncompleted node adds a node to completed_nodes, a recomputed ready
\* list holds uncompleted nodes only, so the loop ends after at most as many
\* iterations as there are discovered nodes, plus one; when it has ended every
\* discovered node is completed and has been executed.
C17_WaveLoopTerminates ==
    pc = "wave" =>
        /\ wave <= Cardinality(DOMAIN dependencies) + 1
        /\ completed_nodes \subseteq DOMAIN dependencies
        /\ ri = Len(ready_nodes) => Range(ready_nodes) \subseteq completed_nodes
        /\ (wave >= 2 /\ ri = 0) => Range(ready_nodes) \cap completed_nodes = {}
        /\ (wave >= 2 /\ ready_nodes # <<>>) => Cardinality(completed_nodes) >= wave
        /\ LoopExited =>
              /\ completed_nodes = DOMAIN dependencies
              /\ Executed = DOMAIN dependencies
              /\ \A n \in DOMAIN dependencies : executions[n] = 1

\* the loop has ended after a third iteration with three nodes executed
C17_Witness ==
    /\ LoopExited
    /\ wave = 3
    /\ Cardinality(DOMAIN dependencies) = 3
    /\ Executed = DOMAIN dependencies

----------------------------------------------------------------------------
(* C18: the executed nodes and their waves are a function of the graph *)

\* the successors the construction of the dependency graph follows from n
WalkedSuccessors(n) == IF n = start_node THEN TakenSuccessors ELSE AllSuccessors(n)

\* the nodes the start node's action leads to, the start node included
Discoverable == {start_node} \cup ReachableFrom(TakenSuccessors)

\* the length of the longest path from the start node to n
RECURSIVE Level(_)
Level(n) ==
    LET preds == {m \in Discoverable : n \in WalkedSuccessors(m)}
        levels == {Level(m) : m \in preds}
    IN IF n = start_node \/ preds = {} THEN 0
       ELSE 1 + CHOOSE l \in levels : \A k \in levels : k <= l

----------------------------------------------------------------------------
(* C19, C20: the phases around _exec, and max_retries <= 0 (SpecNode) *)

PrepCalls == SelectSeq(events, LAMBDA e : e.op = "prep")

\* C19: prep is called exactly once, before every attempt of exec; post is
\* called at most once, after _exec has returned, with what it returned, and
\* nothing is called after it; an error of prep or of post leaves the run as it
\* is, with no retry and no call of exec_fallback.  execute_node makes the same
\* three calls: RunPhases gives the same calls and outcome.
C19_PrepOncePostAtMostOnce ==
    /\ pc = "prep" => events = <<>>
    /\ pc # "prep" => Len(PrepCalls) = 1 /\ events[1].op = "prep"
    /\ Len(PostCalls) <= 1
    /\ PostCalls # <<>> =>
          /\ events[Len(events)].op = "post"
          /\ events[Len(events)].exec_res = exec_res
          /\ events[Len(events)].arg = prep_res
          /\ pc = "done" \/ (pc = "raised" /\ exc = Error("post", 0))
    /\ pc = "done" => Len(PostCalls) = 1
    /\ (pc = "raised" /\ exc.phase = "prep") =>
          /\ events = <<[op |-> "prep"]>>
          /\ exc = Error("prep", 0)
    /\ (pc = "raised" /\ exc.phase = "post") =>
          /\ Len(PostCalls) = 1
          /\ Len(FallbackCalls) <= 1
          /\ \A i \in 1..Len(FallbackCalls) : FallbackCalls[i].exc.phase = "exec"
    /\ (pc = "raised" /\ exc.phase = "exec") => PostCalls = <<>>
    /\ pc \in {"done", "raised"} =>
          /\ RunPhases(self, behaviour).events = events
          /\ RunPhases(self, behaviour).raised = (pc = "raised")

\* post raised after an exec that needed its fallback
C19_Witness ==
    /\ pc = "raised"
    /\ exc.phase = "post"
    /\ Len(FallbackCalls) = 1
    /\ Len(PrepCalls) = 1

\* C20: a Node constructed with max_retries <= 0 is run like any other: exec
\* is never called, exec_fallback is never called, _exec raises nothing and
\* returns None, and post is called with None as exec_res.
C20_NoAttemptsReturnsNone ==
    self.max_retries <= 0 =>
        /\ ExecCalls = <<>>
        /\ FallbackCalls = <<>>
        /\ SleepCalls = <<>>
        /\ pc = "raised" => exc.phase \in {"prep", "post"}
        /\ pc = "post" => exec_res = NoValue
        /\ (pc = "done" \/ (pc = "raised" /\ exc.phase = "post")) =>
              /\ exec_res = NoValue
              /\ PostCalls = <<[op |-> "post", arg |-> prep_res, exec_res |-> NoValue]>>

\* a node with max_retries = 0 whose exec would have failed has returned
C20_Witness ==
    /\ self.max_retries = 0
    /\ behaviour.exec[1] = "fail"
    /\ pc = "done"
    /\ exec_res = NoValue
    /\ Len(PostCalls) = 1

====
